---- MODULE Spec2Model ----
(***************************************************************************)
(* Model of cosmian_anonymization: the pipeline anonymize_dataframe         *)
(* (anonymize.py) with its type conversion layer (conversion_helper.py),   *)
(* transform resolver (method_parser.py, noise_parser.py) and correlation  *)
(* grouper (noise_correlation.py).                                          *)
(*                                                                         *)
(* A cell is a record [k, n, z]: k is the kind of Python value, n a number *)
(* and z a tag.  Floats are counted in halves (n = 3 is 1.5).              *)
(*   int     the int n                                                     *)
(*   float   the float n/2                                                 *)
(*   nan     float("nan")                                                  *)
(*   na      pandas <NA> of the "string" dtype                             *)
(*   text    a string that spells neither a number nor a date; n names it, *)
(*           z = "short" when it is too short for the FPE primitive, and   *)
(*           z names the primitive that produced it when one did           *)
(*   numstr  a string spelling the number n/2, as an integer literal       *)
(*           (z = "i", "7") or as a float literal (z = "f", "1.5")         *)
(*   date    a date string in a human format, instant n, z its UTC offset  *)
(*           ("" when the string carries none)                             *)
(*   isodate a date string in datetime.isoformat() form with offset z      *)
(* A column is [dtype, vals]; a frame is [columns, data, rows], the ordered *)
(* column labels of a pandas DataFrame, the column of each label and the   *)
(* length of its index.                                                    *)
(***************************************************************************)
EXTENDS Integers, Sequences, FiniteSets, TLC

\* Number of rows of the input dataset.
NRows == 2
\* The noise primitives draw a noise in 0..MaxNoise at each invocation.
MaxNoise == 1
\* Number of applications of a function to values that are followed.
MaxCalls == 2

VARIABLES
  config,                \* config["metadata"], the list of column descriptors
  inplace,               \* the inplace argument
  df,                    \* the caller's input DataFrame object
  df0,                   \* value of df when anonymize_dataframe was called
  output_df,             \* the working output DataFrame
  sorted_output_columns, \* create_output_dataframe's list of kept names
  pc,                    \* position in anonymize_dataframe
  i,                     \* index of the running for loop
  tasks,                 \* noise_corr_tasks, in insertion order
  err,                   \* the exception raised, if any
  result,                \* the returned DataFrame, if any
  resolver_calls,        \* calls made to create_transformation_function
  applied,               \* columns on which a value transform was invoked
  group_calls,           \* column lists on which a group transform was built
  last_row,              \* rows the latest row loop invoked its transform on
  caller_pc,             \* position in anonymize_from_files, when it is the caller
  stdout,                \* what anonymize_from_files printed
  output_file,           \* content of the file at output_path
  fun,                   \* the transform function the resolver returned
  calls                  \* applications of functions to values: [fn, arg, out]

vars == <<config, inplace, df, df0, output_df, sorted_output_columns, pc, i,
          tasks, err, result, resolver_calls, applied, group_calls, last_row,
          caller_pc, stdout, output_file, fun, calls>>

\* The state of anonymize_from_files
io == <<caller_pc, stdout, output_file>>

\* A resolved transform function and its applications followed one by one
functions == <<fun, calls>>

-----------------------------------------------------------------------------
\* Cells

IntCell(n) == [k |-> "int", n |-> n, z |-> ""]
FloatCell(h) == [k |-> "float", n |-> h, z |-> ""]
NaN == [k |-> "nan", n |-> 0, z |-> ""]
NA == [k |-> "na", n |-> 0, z |-> ""]
Text(n) == [k |-> "text", n |-> n, z |-> ""]
ShortText(n) == [k |-> "text", n |-> n, z |-> "short"]
NumStr(h, lit) == [k |-> "numstr", n |-> h, z |-> lit]
DateStr(t, off) == [k |-> "date", n |-> t, z |-> off]
IsoDate(t, off) == [k |-> "isodate", n |-> t, z |-> off]

Range(s) == {s[x] : x \in DOMAIN s}

\* dtype pandas infers for a list of Python values
InferDtype(vals) ==
  IF \A x \in DOMAIN vals : vals[x].k = "int" THEN "int64"
  ELSE IF \A x \in DOMAIN vals : vals[x].k \in {"int", "float", "nan"} THEN "float64"
  ELSE "object"

\* Variant: the rows of a column are stored in reverse order
ColumnReversed(vals) ==
  [dtype |-> InferDtype(vals),
   vals |-> [r \in DOMAIN vals |-> vals[Len(vals) + 1 - r]]]

\* A column built from a list of values
Column(vals) == [dtype |-> InferDtype(vals), vals |-> vals]

-----------------------------------------------------------------------------
\* Frames (pandas DataFrame)

\* pd.DataFrame(): no column, and an empty index
EmptyFrame == [columns |-> <<>>, data |-> [c \in {} |-> 0], rows |-> 0]

\* `name in frame`
HasColumn(frame, name) == name \in DOMAIN frame.data

\* frame[name] = col : an existing label keeps its position, a new one is
\* appended; a frame without columns takes the index of the column
SetItem(frame, name, col) ==
  [columns |-> IF HasColumn(frame, name) THEN frame.columns
               ELSE Append(frame.columns, name),
   data |-> [c \in DOMAIN frame.data \cup {name} |->
               IF c = name THEN col ELSE frame.data[c]],
   rows |-> IF frame.columns = <<>> THEN Len(col.vals) ELSE frame.rows]

\* frame[names] : a new frame holding the named columns, in the order of
\* names, with the index of frame
GetItemList(frame, names) ==
  [columns |-> names, data |-> [c \in Range(names) |-> frame.data[c]],
   rows |-> frame.rows]

-----------------------------------------------------------------------------
\* Type conversion layer

CONFIG_TYPES_MAPPING ==
  [Text |-> "string", Date |-> "string", Integer |-> "int64", Float |-> "float64"]

\* str(value), the spelling Series.astype("string") gives a value
str_of(cell) ==
  CASE cell.k = "int" -> NumStr(2 * cell.n, "i")
    [] cell.k = "float" -> NumStr(cell.n, "f")
    [] cell.k = "nan" -> NA
    [] OTHER -> cell

\* Variant: NaN is let through the integer cast
IntOkNaN(cell) ==
  \/ cell.k \in {"int", "float", "nan"}
  \/ cell.k = "numstr" /\ cell.z = "i"

\* int(value): truncation of a float, parsing of an integer literal
IntOk(cell) ==
  \/ cell.k \in {"int", "float"}
  \/ cell.k = "numstr" /\ cell.z = "i"

Trunc(h) == IF h >= 0 THEN h \div 2 ELSE -((-h) \div 2)

ToInt(cell) ==
  CASE cell.k = "int" -> cell
    [] cell.k = "float" -> IntCell(Trunc(cell.n))
    [] OTHER -> IntCell(Trunc(cell.n))

\* float(value)
FloatOk(cell) == cell.k \in {"int", "float", "nan", "numstr"}

ToFloat(cell) ==
  CASE cell.k = "int" -> FloatCell(2 * cell.n)
    [] cell.k = "numstr" -> FloatCell(cell.n)
    [] OTHER -> cell

\* Variant: values that do not convert become NaN, as with errors="coerce"
astype_coerce(col, target) ==
  CASE target = "string" ->
         [ok |-> TRUE,
          col |-> [dtype |-> "string",
                   vals |-> [r \in DOMAIN col.vals |-> str_of(col.vals[r])]]]
    [] target = "int64" ->
         [ok |-> TRUE,
          col |-> Column([r \in DOMAIN col.vals |->
                            IF IntOk(col.vals[r]) THEN ToInt(col.vals[r]) ELSE NaN])]
    [] OTHER ->
         [ok |-> TRUE,
          col |-> [dtype |-> "float64",
                   vals |-> [r \in DOMAIN col.vals |->
                               IF FloatOk(col.vals[r]) THEN ToFloat(col.vals[r])
                               ELSE NaN]]]

\* Series.astype(target): [ok, col]; ok = FALSE when astype raises
astype(col, target) ==
  CASE target = "string" ->
         [ok |-> TRUE,
          col |-> [dtype |-> "string",
                   vals |-> [r \in DOMAIN col.vals |-> str_of(col.vals[r])]]]
    [] target = "int64" ->
         IF \A r \in DOMAIN col.vals : IntOk(col.vals[r])
         THEN [ok |-> TRUE,
               col |-> [dtype |-> "int64",
                        vals |-> [r \in DOMAIN col.vals |-> ToInt(col.vals[r])]]]
         ELSE [ok |-> FALSE, col |-> col]
    [] OTHER ->
         IF \A r \in DOMAIN col.vals : FloatOk(col.vals[r])
         THEN [ok |-> TRUE,
               col |-> [dtype |-> "float64",
                        vals |-> [r \in DOMAIN col.vals |-> ToFloat(col.vals[r])]]]
         ELSE [ok |-> FALSE, col |-> col]

\* dateutil parses the string
DateOk(cell) == cell.k \in {"date", "isodate"}

\* Variant: the date is converted to UTC
date_to_utc(cell) == IsoDate(cell.n, "+00:00")

\* date_to_rfc3339: parse, assume UTC when no offset was parsed, isoformat()
date_to_rfc3339(cell) ==
  IsoDate(cell.n, IF cell.z = "" THEN "+00:00" ELSE cell.z)

\* convert_config_types: [ok, kind, col]
convert_config_types(values, type) ==
  IF type \notin DOMAIN CONFIG_TYPES_MAPPING
  THEN [ok |-> FALSE, kind |-> "InvalidType", col |-> values]
  ELSE LET target == CONFIG_TYPES_MAPPING[type]
           conv == IF values.dtype # target THEN astype(values, target)
                   ELSE [ok |-> TRUE, col |-> values]
       IN IF ~conv.ok
          THEN [ok |-> FALSE, kind |-> "TypeConversion", col |-> values]
          ELSE IF type = "Date"
          THEN IF \A r \in DOMAIN conv.col.vals : DateOk(conv.col.vals[r])
               THEN [ok |-> TRUE, kind |-> "",
                     col |-> [dtype |-> "object",
                              vals |-> [r \in DOMAIN conv.col.vals |->
                                          date_to_rfc3339(conv.col.vals[r])]]]
               ELSE [ok |-> FALSE, kind |-> "TypeConversion", col |-> values]
          ELSE [ok |-> TRUE, kind |-> "", col |-> conv.col]

-----------------------------------------------------------------------------
\* Configuration

\* dict.get(key, default)
Get(d, key, default) == IF key \in DOMAIN d THEN d[key] ELSE default

\* Python's None, as the value of an absent method
None == "<None>"

\* humps.decamelize on one key
decamelize_key(key) ==
  CASE key = "methodOptions" -> "method_options"
    [] key = "hashType" -> "hash_type"
    [] key = "saltValue" -> "salt_value"
    [] key = "extendWith" -> "extend_with"
    [] key = "stdDev" -> "std_dev"
    [] key = "lowerBoundary" -> "lower_boundary"
    [] key = "upperBoundary" -> "upper_boundary"
    [] key = "fineTuning" -> "fine_tuning"
    [] OTHER -> key

\* humps.decamelize on a dict whose values are not dicts
decamelize_flat(d) ==
  [k2 \in {decamelize_key(k1) : k1 \in DOMAIN d} |->
     d[CHOOSE k1 \in DOMAIN d : decamelize_key(k1) = k2]]

\* humps.decamelize on a column descriptor: keys are renamed at every depth
decamelize_meta(meta) ==
  [k2 \in {decamelize_key(k1) : k1 \in DOMAIN meta} |->
     LET k1 == CHOOSE k \in DOMAIN meta : decamelize_key(k) = k2
     IN IF k1 = "methodOptions" THEN decamelize_flat(meta[k1]) ELSE meta[k1]]

decamelize(metadata) == [j \in DOMAIN metadata |-> decamelize_meta(metadata[j])]

\* Column names of the configuration, in configuration order, and the column
\* labels of the input dataset in the dataset's own order ("X" is a column the
\* configuration never names).
ConfigNames == <<"A", "B", "C">>
DatasetOrder == <<"C", "X", "A", "B">>

NoOptions == [k \in {} |-> ""]
NoiseParams == [distribution |-> "Gaussian", mean |-> "0", stdDev |-> "1"]
RescalingParams ==
  [mean |-> "2", stdDev |-> "1", scale |-> "10", translation |-> "100"]
\* The options with the reserved key fineTuning added
FineTuned(opts) ==
  [k \in DOMAIN opts \cup {"fineTuning"} |->
     IF k = "fineTuning" THEN "display" ELSE opts[k]]
Correlated(opts, uid) ==
  [k \in DOMAIN opts \cup {"correlation"} |->
     IF k = "correlation" THEN uid ELSE opts[k]]

\* Cell of row r of a sample column
SampleCell(sample, r) ==
  CASE sample = "names" -> Text(r)
    [] sample = "short_name" -> IF r = 2 THEN ShortText(r) ELSE Text(r)
    [] sample = "ints" -> IntCell(r)
    [] sample = "floats" -> FloatCell(2 * r + 1)
    [] sample = "floats_nan" -> IF r = NRows THEN NaN ELSE FloatCell(2 * r)
    [] sample = "digits" -> NumStr(2 * r, "i")
    [] sample = "notanumber" -> IF r = NRows THEN Text(r) ELSE NumStr(2 * r, "i")
    [] OTHER -> DateStr(r, IF r % 2 = 0 THEN "+02:00" ELSE "")

SampleColumn(sample) == Column([r \in 1..NRows |-> SampleCell(sample, r)])

\* The descriptors (without their name, keys in camelCase as in the JSON
\* configuration) and the input column each is run against; sample "absent"
\* is a column missing from the input dataset.
Scenarios == <<
  [meta |-> [type |-> "Text"], sample |-> "names"],
  [meta |-> [type |-> "Integer"], sample |-> "digits"],
  [meta |-> [type |-> "Integer"], sample |-> "notanumber"],
  [meta |-> [type |-> "Integer"], sample |-> "floats_nan"],
  [meta |-> [type |-> "Float"], sample |-> "floats_nan"],
  [meta |-> [type |-> "Date"], sample |-> "dates"],
  [meta |-> [type |-> "Bogus"], sample |-> "names"],
  [meta |-> [type |-> "Text", method |-> "DeleteColumn"], sample |-> "names"],
  [meta |-> [type |-> "Text", method |-> "DeleteColumn"], sample |-> "absent"],
  [meta |-> [type |-> "Text", method |-> "Hash",
             methodOptions |-> [hashType |-> "SHA3"]], sample |-> "names"],
  [meta |-> [type |-> "Text", method |-> "Hash",
             methodOptions |-> [hashType |-> "SHA3"]], sample |-> "absent"],
  [meta |-> [type |-> "Text", method |-> "FpeString",
             methodOptions |-> [alphabet |-> "alpha"]], sample |-> "short_name"],
  [meta |-> [type |-> "Float", method |-> "NoiseFloat",
             methodOptions |-> FineTuned(NoiseParams)], sample |-> "floats"],
  [meta |-> [type |-> "Float", method |-> "NoiseFloat",
             methodOptions |-> FineTuned(Correlated(NoiseParams, "g1"))],
   sample |-> "floats"],
  [meta |-> [type |-> "Integer", method |-> "NoiseInteger",
             methodOptions |-> Correlated(NoiseParams, "g1")], sample |-> "ints"],
  [meta |-> [type |-> "Float",
             methodOptions |-> Correlated(NoOptions, "g1")], sample |-> "floats"],
  [meta |-> [type |-> "Float", method |-> "RescalingFloat",
             methodOptions |-> RescalingParams], sample |-> "floats_nan"],
  [meta |-> [type |-> "Text", method |-> "Hash",
             methodOptions |-> [saltValue |-> "salt"]], sample |-> "names"],
  [meta |-> [type |-> "Float", method |-> "NoiseFloat",
             methodOptions |-> [distribution |-> "Gaussian", mean |-> "0"]],
   sample |-> "floats"],
  [meta |-> [type |-> "Float", method |-> "RescalingFloat",
             methodOptions |-> Correlated(RescalingParams, "g1")],
   sample |-> "floats"],
  [meta |-> [type |-> "Text", method |-> "Rot13"], sample |-> "names"]
>>

WithName(meta, name) ==
  [k \in DOMAIN meta \cup {"name"} |-> IF k = "name" THEN name ELSE meta[k]]

\* The configuration and the dataset of a choice sc of one scenario per name
ConfigOf(sc) ==
  [j \in DOMAIN sc |-> WithName(Scenarios[sc[j]].meta, ConfigNames[j])]

Index(name) == CHOOSE j \in DOMAIN ConfigNames : ConfigNames[j] = name

SampleOf(sc, name) ==
  IF name = "X" THEN "ints"
  ELSE IF Index(name) \in DOMAIN sc THEN Scenarios[sc[Index(name)]].sample
  ELSE "names"

DatasetOf(sc) ==
  LET Present(name) == SampleOf(sc, name) # "absent"
      labels == SelectSeq(DatasetOrder, Present)
  IN [columns |-> labels,
      data |-> [c \in Range(labels) |-> SampleColumn(SampleOf(sc, c))],
      rows |-> NRows]

\* No transform function resolved
NoFunction == [method |-> None, opts |-> [k \in {} |-> ""]]

\* No file at output_path
NoFile == [exists |-> FALSE, header |-> <<>>, lines |-> <<>>]

NoError == [kind |-> "none", cls |-> "", cols |-> <<>>, row |-> 0]

\* The configurations: one to three columns, each with a scenario of its own
Choices ==
  UNION {{sc \in [1..n -> 1..Len(Scenarios)] :
            \A x, y \in 1..n : sc[x] = sc[y] => x = y} : n \in 1..Len(ConfigNames)}

Init ==
  /\ \E sc \in Choices :
         /\ config = ConfigOf(sc)
         /\ df = DatasetOf(sc)
         /\ df0 = DatasetOf(sc)
  /\ inplace \in BOOLEAN
  /\ output_df = EmptyFrame
  /\ sorted_output_columns = <<>>
  /\ pc = "call"
  /\ i = 0
  /\ tasks = <<>>
  /\ err = NoError
  /\ result = EmptyFrame
  /\ resolver_calls = <<>>
  /\ applied = {}
  /\ group_calls = <<>>
  /\ last_row = 0
  /\ caller_pc = IF inplace THEN "none" ELSE "try"
  /\ stdout = <<>>
  /\ output_file = NoFile
  /\ fun = NoFunction
  /\ calls = <<>>

-----------------------------------------------------------------------------
\* Transform resolver and the primitives it dispatches to

\* Variant: no key is removed
WithoutNothing(d, keys) == d

\* {key: d[key] for key in d if key not in keys}
Without(d, keys) == [k \in DOMAIN d \ keys |-> d[k]]

Registry ==
  {"FpeString", "FpeInteger", "FpeFloat", "TokenizeWords", "MaskWords", "Regex",
   "Hash", "NoiseDate", "NoiseInteger", "NoiseFloat", "AggregationDate",
   "AggregationInteger", "AggregationFloat", "RescalingInteger", "RescalingFloat"}

NoiseMethods == {"NoiseDate", "NoiseInteger", "NoiseFloat"}

Raise(kind, cls, cols, row) == [kind |-> kind, cls |-> cls, cols |-> cols, row |-> row]

\* Keyword parameters of the parsing functions defined in this package:
\* all of them, and those without a default.
Parameters(method) ==
  CASE method = "Hash" -> {"hash_type", "salt_value", "encoding"}
    [] method = "FpeString" -> {"alphabet", "extend_with"}
    [] method = "FpeInteger" -> {"radix", "digit"}
    [] method = "FpeFloat" -> {}
    [] method = "AggregationDate" -> {"time_unit"}
    [] OTHER -> {"distribution", "mean", "std_dev", "lower_boundary", "upper_boundary"}

RequiredParameters(method) ==
  CASE method = "Hash" -> {"hash_type"}
    [] method = "FpeString" -> {"alphabet"}
    [] method = "FpeInteger" -> {"radix", "digit"}
    [] method = "FpeFloat" -> {}
    [] method = "AggregationDate" -> {"time_unit"}
    [] OTHER -> {"distribution"}

\* f(**opts) binds: no unexpected keyword, no missing required argument
Binds(method, opts) ==
  /\ DOMAIN opts \subseteq Parameters(method)
  /\ RequiredParameters(method) \subseteq DOMAIN opts

\* create_noise_generator / create_date_noise_generator called with **opts
create_noise_generator(method, opts) ==
  IF ~Binds(method, opts)
  THEN [ok |-> FALSE, err |-> Raise("BadArguments", "TypeError", <<>>, 0)]
  ELSE IF \/ {"mean", "std_dev"} \subseteq DOMAIN opts
          \/ {"lower_boundary", "upper_boundary"} \subseteq DOMAIN opts
  THEN [ok |-> TRUE, err |-> NoError]
  ELSE [ok |-> FALSE, err |-> Raise("MissingNoiseOptions", "ValueError", <<>>, 0)]

\* create_transformation_function: [ok, err, fn], fn the closure it returns
create_transformation_function(method_name, method_opts) ==
  IF method_name \notin Registry
  THEN [ok |-> FALSE, fn |-> None,
        err |-> Raise("UnknownMethod", "ValueError", <<method_name>>, 0)]
  ELSE LET filtered_method_opts == Without(method_opts, {"fine_tuning"})
           fn == [method |-> method_name, opts |-> filtered_method_opts]
       IN IF method_name \in NoiseMethods
          THEN LET g == create_noise_generator(method_name, filtered_method_opts)
               IN [ok |-> g.ok, fn |-> fn, err |-> g.err]
          ELSE IF method_name \in {"Hash", "FpeString", "FpeInteger", "FpeFloat",
                                   "AggregationDate"}
                  /\ ~Binds(method_name, filtered_method_opts)
          THEN [ok |-> FALSE, fn |-> fn,
                err |-> Raise("BadArguments", "TypeError", <<>>, 0)]
          ELSE [ok |-> TRUE, fn |-> fn, err |-> NoError]

IsStr(cell) == cell.k \in {"text", "numstr", "date", "isodate"}

\* One noisy value: value + noise * factor
AddNoise(cell, noise) ==
  CASE cell.k = "int" -> IntCell(cell.n + noise)
    [] cell.k = "float" -> FloatCell(cell.n + 2 * noise)
    [] cell.k \in {"date", "isodate"} ->
         IsoDate(cell.n + noise, IF cell.z = "" THEN "+00:00" ELSE cell.z)
    [] OTHER -> cell

\* The argument type each noise primitive accepts
NoiseAccepts(method, cell) ==
  CASE method = "NoiseInteger" -> cell.k = "int"
    [] method = "NoiseFloat" -> cell.k \in {"int", "float", "nan"}
    [] OTHER -> DateOk(cell)

NoiseInput(method, cell) == IF method = "NoiseFloat" THEN ToFloat(cell) ELSE cell

\* Variant: a float primitive that rejects the missing value
FloatArgFinite(cell) == cell.k \in {"int", "float"}

\* A value a primitive taking a float accepts: a Python int or float, NaN
\* included
FloatArg(cell) == cell.k \in {"int", "float", "nan"}

\* transform_func(val) of the closure fn; rnd is what the primitive draws at
\* this call (the noise of a noise generator, the os.urandom key and tweak of
\* an FPE encryption): [ok, val]
transform_func(fn, val, rnd) ==
  CASE fn.method = "Hash" ->
         IF IsStr(val) THEN [ok |-> TRUE, val |-> [k |-> "text", n |-> val.n, z |-> "hash"]]
         ELSE [ok |-> FALSE, val |-> val]
    [] fn.method = "FpeString" ->
         IF val.k = "text" /\ val.z # "short"
         THEN [ok |-> TRUE,
               val |-> [k |-> "text", n |-> val.n, z |-> IF rnd = 0 THEN "fpe0" ELSE "fpe1"]]
         ELSE [ok |-> FALSE, val |-> val]
    [] fn.method \in NoiseMethods ->
         IF NoiseAccepts(fn.method, val)
         THEN [ok |-> TRUE, val |-> AddNoise(NoiseInput(fn.method, val), rnd)]
         ELSE [ok |-> FALSE, val |-> val]
    [] fn.method = "RescalingFloat" ->
         IF FloatArg(val) THEN [ok |-> TRUE, val |-> [val EXCEPT !.z = fn.method]]
         ELSE [ok |-> FALSE, val |-> val]
    [] OTHER -> [ok |-> TRUE, val |-> [val EXCEPT !.z = fn.method]]

\* Variant: the loop runs to the end and reports the last failure
LastOf(rows) == CHOOSE r \in rows : \A q \in rows : r >= q

\* Rows at which a transform fails, and the first of them
FirstOf(rows) == CHOOSE r \in rows : \A q \in rows : r <= q

\* Variant: the test looks for the key under its configuration-file spelling
PassthroughOtherKey(method, method_options) ==
  method = None \/ "correlationId" \in DOMAIN method_options

\* Variant: only the absence of a method returns the values as they are
PassthroughWithoutMethod(method, method_options) == method = None

\* `if method is None or "correlation" in method_options: return values`
Passthrough(method, method_options) ==
  method = None \/ "correlation" \in DOMAIN method_options

\* apply_anonymization_column: [ok, err, col, resolved, applied, rows, passed],
\* rows the number of rows its loop invoked the transform on, passed the
\* options the resolver handed to the parsing function
apply_anonymization_column(name, values, method, method_options, rnd) ==
  IF Passthrough(method, method_options)
  THEN [ok |-> TRUE, err |-> NoError, col |-> values, resolved |-> FALSE,
        applied |-> FALSE, rows |-> 0, passed |-> NoOptions]
  ELSE LET f == create_transformation_function(method, method_options)
           out == [r \in DOMAIN values.vals |->
                     transform_func(f.fn, values.vals[r], rnd[r])]
           bad == {r \in DOMAIN values.vals : ~out[r].ok}
           passed == IF method \in Registry THEN f.fn.opts ELSE NoOptions
       IN IF ~f.ok
          THEN [ok |-> FALSE, err |-> f.err, col |-> values, resolved |-> TRUE,
                applied |-> FALSE, rows |-> 0, passed |-> passed]
          ELSE IF bad # {}
          THEN [ok |-> FALSE,
                err |-> Raise("Transform", "ValueError", <<name>>, FirstOf(bad)),
                col |-> values, resolved |-> TRUE, applied |-> TRUE,
                rows |-> FirstOf(bad), passed |-> passed]
          ELSE [ok |-> TRUE, err |-> NoError,
                col |-> Column([r \in DOMAIN values.vals |-> out[r].val]),
                resolved |-> TRUE, applied |-> DOMAIN values.vals # {},
                rows |-> Len(values.vals), passed |-> passed]

-----------------------------------------------------------------------------
\* Correlation grouper

\* NoiseCorrelationTask.__init__
NoiseCorrelationTask(uid, method, opts) ==
  [uid |-> uid, method |-> method,
   options |-> Without(opts, {"correlation", "fine_tuning"}),
   column_names |-> <<>>]

\* Variant: the presence of a method is not checked
HasCorrelationOption(meta) ==
  /\ "method_options" \in DOMAIN meta
  /\ "correlation" \in DOMAIN meta.method_options

\* The descriptors parse_noise_correlation_config does not skip
HasCorrelation(meta) ==
  /\ "method" \in DOMAIN meta
  /\ "method_options" \in DOMAIN meta
  /\ "correlation" \in DOMAIN meta.method_options

\* Variant: the column joins the group created last
LastTask(ts, uid) == Len(ts)

\* noise_corr_tasks[correlation_uid]
TaskIndex(ts, uid) == CHOOSE x \in DOMAIN ts : ts[x].uid = uid

\* Variant: every descriptor of a correlation id rebinds the method and the
\* options of its group
ScanDescriptorRebinding(ts, meta) ==
  IF ~HasCorrelation(meta) THEN ts
  ELSE LET correlation_uid == meta.method_options.correlation
           known == \E x \in DOMAIN ts : ts[x].uid = correlation_uid
           fresh == NoiseCorrelationTask(correlation_uid, Get(meta, "method", None),
                                         meta.method_options)
           ts1 == IF known THEN ts ELSE Append(ts, fresh)
           x == TaskIndex(ts1, correlation_uid)
       IN [ts1 EXCEPT ![x] = [fresh EXCEPT
                                !.column_names = Append(ts1[x].column_names, meta.name)]]

\* One iteration of the loop of parse_noise_correlation_config
ScanDescriptor(ts, meta) ==
  IF ~HasCorrelation(meta) THEN ts
  ELSE LET correlation_uid == meta.method_options.correlation
           known == \E x \in DOMAIN ts : ts[x].uid = correlation_uid
           ts1 == IF known THEN ts
                  ELSE Append(ts, NoiseCorrelationTask(correlation_uid,
                                     Get(meta, "method", None), meta.method_options))
           x == TaskIndex(ts1, correlation_uid)
       IN [ts1 EXCEPT ![x].column_names = Append(@, meta.name)]

RECURSIVE ScanFrom(_, _, _)
ScanFrom(ts, metadata, j) ==
  IF j > Len(metadata) THEN ts
  ELSE ScanFrom(ScanDescriptor(ts, metadata[j]), metadata, j + 1)

parse_noise_correlation_config(metadata) == ScanFrom(<<>>, metadata, 1)

\* NoiseCorrelationTask.generate_transformation: [ok, err]
generate_transformation(task) ==
  IF task.method \notin NoiseMethods
  THEN [ok |-> FALSE,
        err |-> Raise("CorrelationMethod", "ValueError", <<task.method>>, 0)]
  ELSE create_noise_generator(task.method, task.options)

\* frame[names].values : one row per line; a frame mixing int64 and float64
\* columns gives an array of floats
Values(frame, names) ==
  LET dtypes == {frame.data[names[c]].dtype : c \in DOMAIN names}
      Upcast(cell) == IF dtypes = {"int64", "float64"} THEN ToFloat(cell) ELSE cell
  IN [r \in 1..NRows |->
        [c \in DOMAIN names |-> Upcast(frame.data[names[c]].vals[r])]]

\* Variant: every member of the vector gets a noise of its own
apply_noise_per_column(task, data_vec, noise) ==
  [c \in DOMAIN data_vec |->
     AddNoise(NoiseInput(task.method, data_vec[c]), noise + c - 1)]

\* apply_noise(data_vec): the generator draws one noise per call and adds
\* noise * correlation_factors[c] to every member of the vector
apply_noise(task, data_vec, noise) ==
  LET correlation_factors == [c \in DOMAIN data_vec |-> 1]
  IN [c \in DOMAIN data_vec |->
        AddNoise(NoiseInput(task.method, data_vec[c]), noise * correlation_factors[c])]

\* apply_correlation_columns: [ok, err, rows, invoked], invoked the number of
\* rows its loop invoked the transform on
apply_correlation_columns(values, task, rnd) ==
  LET t == generate_transformation(task)
      bad == {r \in DOMAIN values :
                \E c \in DOMAIN values[r] : ~NoiseAccepts(task.method, values[r][c])}
  IN IF ~t.ok THEN [ok |-> FALSE, err |-> t.err, rows |-> values, invoked |-> 0]
     ELSE IF bad # {}
     THEN [ok |-> FALSE, rows |-> values, invoked |-> FirstOf(bad),
           err |-> Raise("Transform", "ValueError", task.column_names, FirstOf(bad))]
     ELSE [ok |-> TRUE, err |-> NoError, invoked |-> Len(values),
           rows |-> [r \in DOMAIN values |-> apply_noise(task, values[r], rnd[r])]]

\* frame[names] = rows : column c of the rows replaces the column names[c]
RECURSIVE SetItemList(_, _, _, _)
SetItemList(frame, names, rows, c) ==
  IF c > Len(names) THEN frame
  ELSE SetItemList(SetItem(frame, names[c],
                           Column([r \in DOMAIN rows |-> rows[r][c]])),
                   names, rows, c + 1)

-----------------------------------------------------------------------------
\* Pipeline orchestrator

\* Variant: DeleteColumn is not special-cased
NeverDeleteColumn(meta) == FALSE

\* line 44
IsDeleteColumn(meta) == "method" \in DOMAIN meta /\ meta.method = "DeleteColumn"

\* Variant: a new DataFrame is never built
OutputIsInputAlways(inpl) == TRUE

\* output_df is the caller's DataFrame object (lines 30-32)
OutputIsInput(inpl) == inpl

\* Variant: the existence check placed after the DeleteColumn `continue`
ColumnMissingUnlessDeleted(frame, meta) ==
  ~IsDeleteColumn(meta) /\ ~HasColumn(frame, meta.name)

\* `col_name not in df` (line 40)
ColumnMissing(frame, meta) == ~HasColumn(frame, meta.name)

\* Variant: no explicit check, the KeyError of df[col_name] surfaces
missing_column_key_error(col_name) ==
  Raise("KeyError", "KeyError", <<col_name>>, 0)

\* line 42
missing_column_error(col_name) ==
  Raise("MissingColumn", "ValueError", <<col_name>>, 0)

\* Variant: create_output_dataframe returns output_df as it stands
ProjectOutputUnordered(frame, names) == frame

\* the return of create_output_dataframe (line 54)
ProjectOutput(frame, names) == GetItemList(frame, names)

\* What the primitives draw over the rows of one column or group: the noise of
\* a noise generator, the os.urandom key and tweak of an FPE encryption;
\* the other primitives draw nothing
Draws == [1..NRows -> 0..MaxNoise]
NoDraw == [r \in 1..NRows |-> 0]
DrawsOf(method, method_options) ==
  IF /\ method \in NoiseMethods \cup {"FpeString", "FpeInteger", "FpeFloat"}
     /\ "correlation" \notin DOMAIN method_options
  THEN Draws ELSE {NoDraw}

\* anonymize_dataframe is entered (called directly, or by anonymize_from_files
\* when caller_pc = "try"): decamelize, and create_output_dataframe up to its
\* loop
Call ==
  /\ pc = "call"
  /\ config' = decamelize(config)
  /\ output_df' = IF OutputIsInput(inplace) THEN df ELSE EmptyFrame
  /\ sorted_output_columns' = <<>>
  /\ pc' = "create"
  /\ i' = 1
  /\ UNCHANGED <<inplace, df, df0, tasks, err, result, resolver_calls, applied,
                 group_calls, last_row>>
  /\ UNCHANGED io
  /\ UNCHANGED functions

\* One iteration of the loop of create_output_dataframe
ValidateColumn ==
  /\ pc = "create"
  /\ i <= Len(config)
  /\ LET column_metadata == config[i]
         col_name == column_metadata.name
         col_type == column_metadata.type
     IN IF ColumnMissing(df, column_metadata)
        THEN /\ err' = missing_column_error(col_name)
             /\ pc' = "raised"
             /\ UNCHANGED <<df, output_df, sorted_output_columns, i>>
        ELSE IF IsDeleteColumn(column_metadata)
        THEN /\ i' = i + 1
             /\ UNCHANGED <<df, output_df, sorted_output_columns, pc, err>>
        ELSE LET cv == convert_config_types(df.data[col_name], col_type)
             IN IF cv.ok
                THEN /\ output_df' = SetItem(output_df, col_name, cv.col)
                     /\ df' = IF OutputIsInput(inplace)
                              THEN SetItem(output_df, col_name, cv.col) ELSE df
                     /\ sorted_output_columns' = Append(sorted_output_columns, col_name)
                     /\ i' = i + 1
                     /\ UNCHANGED <<pc, err>>
                ELSE /\ err' = Raise(cv.kind, "ValueError", <<col_name>>, 0)
                     /\ pc' = "raised"
                     /\ sorted_output_columns' = Append(sorted_output_columns, col_name)
                     /\ UNCHANGED <<df, output_df, i>>
  /\ UNCHANGED <<config, inplace, df0, tasks, result, resolver_calls, applied,
                 group_calls, last_row>>
  /\ UNCHANGED io
  /\ UNCHANGED functions

\* The return of create_output_dataframe
Project ==
  /\ pc = "create"
  /\ i > Len(config)
  /\ output_df' = ProjectOutput(output_df, sorted_output_columns)
  /\ pc' = "transform"
  /\ i' = 1
  /\ UNCHANGED <<config, inplace, df, df0, sorted_output_columns, tasks, err,
                 result, resolver_calls, applied, group_calls, last_row>>
  /\ UNCHANGED io
  /\ UNCHANGED functions

\* One iteration of the first loop of anonymize_dataframe
TransformColumn ==
  /\ pc = "transform"
  /\ i <= Len(config)
  /\ LET column_metadata == config[i]
         col_name == column_metadata.name
         method == Get(column_metadata, "method", None)
         method_options == Get(column_metadata, "method_options", NoOptions)
     IN IF ~HasColumn(output_df, col_name)
        THEN /\ i' = i + 1
             /\ UNCHANGED <<output_df, pc, err, resolver_calls, applied, last_row>>
        ELSE \E rnd \in DrawsOf(method, method_options) :
               LET a == apply_anonymization_column(col_name, output_df.data[col_name],
                                                   method, method_options, rnd)
               IN /\ resolver_calls' =
                       IF a.resolved
                       THEN Append(resolver_calls,
                                   [col |-> col_name, method |-> method,
                                    opts |-> method_options, passed |-> a.passed])
                       ELSE resolver_calls
                  /\ applied' = IF a.applied THEN applied \cup {col_name} ELSE applied
                  /\ last_row' = a.rows
                  /\ IF a.ok
                     THEN /\ output_df' = SetItem(output_df, col_name, a.col)
                          /\ i' = i + 1
                          /\ UNCHANGED <<pc, err>>
                     ELSE /\ err' = a.err
                          /\ pc' = "raised"
                          /\ UNCHANGED <<output_df, i>>
  /\ UNCHANGED <<config, inplace, df, df0, sorted_output_columns, tasks, result,
                 group_calls>>
  /\ UNCHANGED io
  /\ UNCHANGED functions

\* Variant: the grouper runs as soon as the first loop has started
ParseCorrelationEarly ==
  /\ pc = "transform"
  /\ tasks' = parse_noise_correlation_config(config)
  /\ pc' = "correlate"
  /\ i' = 1
  /\ UNCHANGED <<config, inplace, df, df0, output_df, sorted_output_columns, err,
                 result, resolver_calls, applied, group_calls, last_row>>
  /\ UNCHANGED io
  /\ UNCHANGED functions

\* noise_corr_tasks = parse_noise_correlation_config(config)
ParseCorrelation ==
  /\ pc = "transform"
  /\ i > Len(config)
  /\ tasks' = parse_noise_correlation_config(config)
  /\ pc' = "correlate"
  /\ i' = 1
  /\ UNCHANGED <<config, inplace, df, df0, output_df, sorted_output_columns, err,
                 result, resolver_calls, applied, group_calls, last_row>>
  /\ UNCHANGED io
  /\ UNCHANGED functions

\* One iteration of the second loop of anonymize_dataframe
ApplyCorrelation ==
  /\ pc = "correlate"
  /\ i <= Len(tasks)
  /\ LET task == tasks[i]
     IN IF \E c \in DOMAIN task.column_names :
             ~HasColumn(output_df, task.column_names[c])
        THEN /\ err' = Raise("KeyError", "KeyError", task.column_names, 0)
             /\ pc' = "raised"
             /\ UNCHANGED <<output_df, i, group_calls, last_row>>
        ELSE \E rnd \in Draws :
               LET g == apply_correlation_columns(
                          Values(output_df, task.column_names), task, rnd)
               IN /\ group_calls' = Append(group_calls, task.column_names)
                  /\ last_row' = g.invoked
                  /\ IF g.ok
                     THEN /\ output_df' = SetItemList(output_df, task.column_names,
                                                      g.rows, 1)
                          /\ i' = i + 1
                          /\ UNCHANGED <<pc, err>>
                     ELSE /\ err' = g.err
                          /\ pc' = "raised"
                          /\ UNCHANGED <<output_df, i>>
  /\ UNCHANGED <<config, inplace, df, df0, sorted_output_columns, tasks, result,
                 resolver_calls, applied>>
  /\ UNCHANGED io
  /\ UNCHANGED functions

\* return output_df
Return ==
  /\ pc = "correlate"
  /\ i > Len(tasks)
  /\ result' = output_df
  /\ pc' = "done"
  /\ UNCHANGED <<config, inplace, df, df0, output_df, sorted_output_columns, i,
                 tasks, err, resolver_calls, applied, group_calls, last_row>>
  /\ UNCHANGED io
  /\ UNCHANGED functions

\* DataFrame.to_csv(output_path, index=False): the header and one line per
\* row, every value spelled as a string
to_csv(frame) ==
  [exists |-> TRUE,
   header |-> frame.columns,
   lines |-> [r \in 1..frame.rows |->
                [c \in DOMAIN frame.columns |->
                   str_of(frame.data[frame.columns[c]].vals[r])]]]

pipeline == <<config, inplace, df, df0, output_df, sorted_output_columns, pc, i,
              tasks, err, result, resolver_calls, applied, group_calls, last_row>>

\* anonymize_from_files, `except ValueError as e`: the message is printed and
\* the function returns
Except ==
  /\ caller_pc = "try"
  /\ pc = "raised"
  /\ err.cls = "ValueError"
  /\ stdout' = Append(stdout, "Anonymization failed:")
  /\ caller_pc' = "returned"
  /\ UNCHANGED <<pipeline, output_file, functions>>

\* anonymize_from_files: an exception that is no ValueError matches no except
\* clause and leaves the function
Propagate ==
  /\ caller_pc = "try"
  /\ pc = "raised"
  /\ err.cls # "ValueError"
  /\ caller_pc' = "raised"
  /\ UNCHANGED <<pipeline, stdout, output_file, functions>>

\* anonymize_from_files after the try statement: the output file is written
WriteCsv ==
  /\ caller_pc = "try"
  /\ pc = "done"
  /\ output_file' = to_csv(result)
  /\ stdout' = Append(stdout, "Anonymized data written to")
  /\ caller_pc' = "returned"
  /\ UNCHANGED <<pipeline, functions>>

Next ==
  \/ Call
  \/ ValidateColumn
  \/ Project
  \/ TransformColumn
  \/ ParseCorrelation
  \/ ApplyCorrelation
  \/ Return
  \/ Except
  \/ Propagate
  \/ WriteCsv

Spec == Init /\ [][Next]_vars

-----------------------------------------------------------------------------
\* The functions applied to values, one application at a time: the function
\* create_transformation_function returns, and date_to_rfc3339

\* Nothing of a dataset is in play
InitFunctions ==
  /\ config = <<>>
  /\ inplace = FALSE
  /\ df = EmptyFrame
  /\ df0 = EmptyFrame
  /\ output_df = EmptyFrame
  /\ sorted_output_columns = <<>>
  /\ pc = "functions"
  /\ i = 0
  /\ tasks = <<>>
  /\ err = NoError
  /\ result = EmptyFrame
  /\ resolver_calls = <<>>
  /\ applied = {}
  /\ group_calls = <<>>
  /\ last_row = 0
  /\ caller_pc = "none"
  /\ stdout = <<>>
  /\ output_file = NoFile
  /\ fun = NoFunction
  /\ calls = <<>>

\* Values handed to a transform function
TransformInputs ==
  {SampleCell(sample, r) : sample \in {"names", "ints", "floats"}, r \in 1..NRows}

\* Date strings handed to date_to_rfc3339: in a human format or in ISO
\* format, without offset, in UTC or with another offset
DateInputs ==
  {DateStr(t, off) : t \in 1..NRows, off \in {"", "+00:00", "+02:00"}}
    \cup {IsoDate(t, off) : t \in 1..NRows, off \in {"", "+00:00", "+02:00"}}

\* create_transformation_function(method, options) returns a function, for the
\* method and the options of a descriptor that is transformed independently
Resolve ==
  /\ pc = "functions"
  /\ fun = NoFunction
  /\ \E s \in DOMAIN Scenarios :
       LET meta == decamelize_meta(Scenarios[s].meta)
           method == Get(meta, "method", None)
           method_options == Get(meta, "method_options", NoOptions)
           f == create_transformation_function(method, method_options)
       IN /\ method # None
          /\ "correlation" \notin DOMAIN method_options
          /\ f.ok
          /\ fun' = f.fn
  /\ UNCHANGED <<pipeline, io, calls>>

\* transform_func(val): one application of the resolved function that returns
ApplyTransform ==
  /\ pc = "functions"
  /\ fun # NoFunction
  /\ Len(calls) < MaxCalls
  /\ \E val \in TransformInputs :
       \E rnd \in 0..MaxNoise :
         LET t == transform_func(fun, val, rnd)
         IN /\ t.ok
            /\ calls' = Append(calls, [fn |-> fun, arg |-> val, out |-> t.val])
  /\ UNCHANGED <<pipeline, io, fun>>

\* date_to_rfc3339(date_str): one application, to a date string or to the
\* result of an earlier application
CanonicalizeDate ==
  /\ pc = "functions"
  /\ Len(calls) < MaxCalls
  /\ \E d \in DateInputs \cup {calls[x].out : x \in DOMAIN calls} :
       /\ DateOk(d)
       /\ calls' = Append(calls, [fn |-> [method |-> "date_to_rfc3339", opts |-> NoOptions],
                                 arg |-> d, out |-> date_to_rfc3339(d)])
  /\ UNCHANGED <<pipeline, io, fun>>

NextFunctions ==
  \/ Resolve
  \/ ApplyTransform
  \/ CanonicalizeDate

FunctionSpec == InitFunctions /\ [][NextFunctions]_vars

-----------------------------------------------------------------------------
\* parse_noise_correlation_config applied to configurations, without a dataset

\* Descriptors with and without a method, method options and a correlation id
GrouperDescriptors == <<
  [type |-> "Text"],
  [type |-> "Text", method |-> "Hash"],
  [type |-> "Float", method |-> "NoiseFloat", methodOptions |-> NoiseParams],
  [type |-> "Float", method |-> "NoiseFloat",
   methodOptions |-> Correlated(NoiseParams, "g1")],
  [type |-> "Float", method |-> "NoiseFloat",
   methodOptions |-> Correlated(NoiseParams, "g2")],
  [type |-> "Integer", method |-> "NoiseInteger",
   methodOptions |-> Correlated(NoiseParams, "g2")],
  [type |-> "Float", methodOptions |-> Correlated(NoOptions, "g1")]
>>

InitGrouper ==
  /\ \E n \in 1..Len(ConfigNames) :
       \E d \in [1..n -> DOMAIN GrouperDescriptors] :
         config = [j \in 1..n |-> WithName(GrouperDescriptors[d[j]], ConfigNames[j])]
  /\ inplace = FALSE
  /\ df = EmptyFrame
  /\ df0 = EmptyFrame
  /\ output_df = EmptyFrame
  /\ sorted_output_columns = <<>>
  /\ pc = "grouper"
  /\ i = 0
  /\ tasks = <<>>
  /\ err = NoError
  /\ result = EmptyFrame
  /\ resolver_calls = <<>>
  /\ applied = {}
  /\ group_calls = <<>>
  /\ last_row = 0
  /\ caller_pc = "none"
  /\ stdout = <<>>
  /\ output_file = NoFile
  /\ fun = NoFunction
  /\ calls = <<>>

\* The keys are decamelized (anonymize.py line 142) and
\* parse_noise_correlation_config is called on the configuration (line 163)
ParseConfig ==
  /\ pc = "grouper"
  /\ config' = decamelize(config)
  /\ tasks' = parse_noise_correlation_config(decamelize(config))
  /\ pc' = "grouped"
  /\ UNCHANGED <<inplace, df, df0, output_df, sorted_output_columns, i, err, result,
                 resolver_calls, applied, group_calls, last_row, io, functions>>

NextGrouper == ParseConfig

GrouperSpec == InitGrouper /\ [][NextGrouper]_vars

-----------------------------------------------------------------------------
\* Properties

MethodOf(meta) == IF "method" \in DOMAIN meta THEN meta.method ELSE None

OptionsOf(meta) ==
  IF "method_options" \in DOMAIN meta THEN meta.method_options
  ELSE IF "methodOptions" \in DOMAIN meta THEN meta.methodOptions
  ELSE NoOptions

Deleted(j) == MethodOf(config[j]) = "DeleteColumn"
InInput(j) == config[j].name \in Range(df0.columns)
NotDeleted(meta) == MethodOf(meta) # "DeleteColumn"

\* The configuration's column names, in order, without the DeleteColumn entries
ExpectedColumns ==
  LET kept == SelectSeq(config, NotDeleted)
  IN [j \in DOMAIN kept |-> kept[j].name]

\* create_output_dataframe has returned
Projected == pc \in {"transform", "correlate", "done"}

NoTransformYet == resolver_calls = <<>> /\ applied = {} /\ group_calls = <<>>

\* The exception is one raised by validation or conversion of a descriptor
\* placed before position j
RaisedBefore(j) ==
  /\ err.cls = "ValueError"
  /\ err.kind \in {"MissingColumn", "InvalidType", "TypeConversion"}
  /\ \E q \in DOMAIN config : q < j /\ err.cols = <<config[q].name>>

\* C1: once create_output_dataframe has returned, and through the independent
\* and the grouped transforms up to the return of anonymize_dataframe, the
\* columns of the output are the configuration's names in configuration order
\* with exactly the DeleteColumn descriptors removed.
C1_OrderPreserved ==
  /\ Projected => output_df.columns = ExpectedColumns
  /\ pc = "done" => result.columns = ExpectedColumns

\* A successful in-place call that deleted a column and ran an independent and
\* a grouped transform, on an input whose column order is not the configuration's
C1_Witness ==
  /\ pc = "done"
  /\ inplace
  /\ Len(config) = 3
  /\ \E j \in DOMAIN config : Deleted(j)
  /\ applied # {}
  /\ group_calls # <<>>
  /\ Len(result.columns) = 2

\* C2: a DeleteColumn column is never a column of the output, and a
\* DeleteColumn descriptor naming a column absent from the input makes the
\* call fail during validation instead of returning: the exception is the
\* missing-column ValueError of the first absent column, unless validation or
\* conversion of an earlier descriptor raised first.
C2_Deletion ==
  LET absent == {j \in DOMAIN config : Deleted(j) /\ ~InInput(j)}
      missing == {j \in DOMAIN config : ~InInput(j)}
  IN /\ Projected =>
          \A j \in DOMAIN config :
            Deleted(j) => /\ config[j].name \notin Range(output_df.columns)
                          /\ config[j].name \notin DOMAIN output_df.data
     /\ pc = "done" =>
          \A j \in DOMAIN config :
            Deleted(j) => config[j].name \notin Range(result.columns)
     /\ absent # {} =>
          /\ pc \in {"call", "create", "raised"}
          /\ pc = "raised" =>
               \/ err = Raise("MissingColumn", "ValueError",
                              <<config[FirstOf(missing)].name>>, 0)
               \/ RaisedBefore(FirstOf(missing))

\* The call failed on a DeleteColumn descriptor whose column is absent
C2_Witness ==
  /\ pc = "raised"
  /\ err.kind = "MissingColumn"
  /\ \E j \in DOMAIN config : Deleted(j) /\ err.cols = <<config[j].name>>

\* A DeleteColumn column of the input was left out of a returned dataset
C2_WitnessDeleted ==
  /\ pc = "done"
  /\ \E j \in DOMAIN config : Deleted(j) /\ InInput(j)
  /\ Len(result.columns) > 0

\* C3: when the configuration names a column absent from the input, the call
\* never gets past validation and fails with a ValueError, wherever the
\* descriptor stands in the configuration, and no independent or grouped
\* transform has been resolved or applied; the exception is the missing-column
\* error of the first absent column, unless validation or conversion of an
\* earlier descriptor raised first.
C3_FailFastMissingColumn ==
  LET missing == {j \in DOMAIN config : ~InInput(j)}
  IN missing # {} =>
       /\ pc \in {"call", "create", "raised"}
       /\ NoTransformYet
       /\ result = EmptyFrame
       /\ pc = "raised" =>
            \/ err = Raise("MissingColumn", "ValueError",
                           <<config[FirstOf(missing)].name>>, 0)
            \/ RaisedBefore(FirstOf(missing))

\* The missing-column error is raised for the last of three descriptors, the
\* ones before it carrying transforms
C3_Witness ==
  /\ pc = "raised"
  /\ err.kind = "MissingColumn"
  /\ Len(config) = 3
  /\ err.cols = <<config[3].name>>
  /\ MethodOf(config[1]) \in Registry
  /\ MethodOf(config[2]) \in Registry

\* C4: with inplace = False the caller's dataset keeps its columns, their order
\* and their values throughout the call, whether it returns or raises.
C4_InputUntouched == ~inplace => df = df0

\* A call with inplace = False returned a dataset that differs from the input
\* by a deletion, a conversion, an independent and a grouped transform
C4_Witness ==
  /\ ~inplace
  /\ pc = "done"
  /\ \E j \in DOMAIN config : Deleted(j)
  /\ applied # {}
  /\ group_calls # <<>>
  /\ df = df0
  /\ \E c \in DOMAIN result.data : result.data[c] # df0.data[c]

\* C5: after a successful call with inplace = True the caller's dataset is the
\* returned dataset: the non-deleted columns in configuration order, holding
\* the anonymized values.
C5_InPlaceIsResult == (inplace /\ pc = "done") => df = result

\* C6: a call that raises returns no dataset and leaves every dataset the
\* caller can see, its input included, as it was before the call.
C6_NoPartialResult == pc = "raised" => (result = EmptyFrame /\ df = df0)

\* The values of a cell, counted in halves
Num(cell) == IF cell.k = "int" THEN 2 * cell.n ELSE cell.n

\* Step of the grouped-transform loop that wrote the results of a group
GroupStep == pc = "correlate" /\ pc' = "correlate" /\ i' = i + 1

\* C7: a step of the grouped-transform loop gives, in every row, the members of
\* the group the values of one invocation on that row's vector of member values
\* (every member of the row is moved by the same noise); it writes the group's
\* member columns and leaves every other column, and the column order, as they
\* were.
C7_JointGroupTransform ==
  [][GroupStep =>
       LET members == Range(tasks[i].column_names)
           before == Values(output_df, tasks[i].column_names)
       IN /\ output_df'.columns = output_df.columns
          /\ \A c \in DOMAIN output_df.data \ members :
               output_df'.data[c] = output_df.data[c]
          /\ \A r \in 1..NRows :
               \E noise \in 0..MaxNoise :
                 \A c \in DOMAIN tasks[i].column_names :
                   LET new == output_df'.data[tasks[i].column_names[c]].vals[r]
                   IN \/ Num(new) - Num(before[r][c]) = 2 * noise
                      \/ new.k = "nan" /\ before[r][c].k = "nan"]_vars

\* A and C were transformed as one group and B independently, and the call
\* returned
C7_Witness ==
  /\ pc = "done"
  /\ group_calls = << <<"A", "C">> >>
  /\ "B" \in applied
  /\ \E r \in 1..NRows : result.data["A"].vals[r] # df0.data["A"].vals[r]

\* C8: a descriptor without a method yields the type-converted input column,
\* row for row; no transform is resolved or applied for it, and it is a member
\* of no correlation group, also when its method_options hold a correlation id.
C8_NoMethodPassthrough ==
  \A j \in DOMAIN config :
    "method" \notin DOMAIN config[j] =>
      LET name == config[j].name
      IN /\ \A x \in DOMAIN resolver_calls : resolver_calls[x].col # name
         /\ name \notin applied
         /\ \A x \in DOMAIN tasks : name \notin Range(tasks[x].column_names)
         /\ \A x \in DOMAIN group_calls : name \notin Range(group_calls[x])
         /\ Projected =>
              output_df.data[name] = convert_config_types(df0.data[name], config[j].type).col
         /\ pc = "done" =>
              result.data[name] = convert_config_types(df0.data[name], config[j].type).col

\* A call returned whose configuration has a descriptor without a method that
\* carries the correlation id of a group that was transformed
C8_Witness ==
  /\ pc = "done"
  /\ group_calls # <<>>
  /\ \E j \in DOMAIN config :
       /\ "method" \notin DOMAIN config[j]
       /\ "correlation" \in DOMAIN OptionsOf(config[j])
       /\ \E x \in DOMAIN tasks : tasks[x].uid = OptionsOf(config[j]).correlation

\* A value that is not of the declared semantic type: text that spells no
\* number, or a missing value, for Integer; text that spells no number for
\* Float; text that spells no date for Date
Unconvertible(cell, type) ==
  CASE type = "Integer" -> cell.k \in {"text", "date", "isodate", "nan", "na"}
    [] type = "Float" -> cell.k \in {"text", "date", "isodate"}
    [] type = "Date" -> cell.k \in {"text", "nan", "na"}
    [] OTHER -> FALSE

HasUnconvertible(j) ==
  /\ ~Deleted(j)
  /\ InInput(j)
  /\ \E r \in 1..NRows : Unconvertible(df0.data[config[j].name].vals[r], config[j].type)

\* C9: when a non-deleted column holds a value that cannot be converted to its
\* declared type, the call never gets past conversion and fails with a
\* ValueError before any transform is resolved or applied; the exception is the
\* type-conversion error naming the first such column, unless validation or
\* conversion of an earlier descriptor raised first.
C9_TypeConversionFailure ==
  LET bad == {j \in DOMAIN config : HasUnconvertible(j)}
  IN bad # {} =>
       /\ pc \in {"call", "create", "raised"}
       /\ NoTransformYet
       /\ result = EmptyFrame
       /\ pc = "raised" =>
            \/ err = Raise("TypeConversion", "ValueError",
                           <<config[FirstOf(bad)].name>>, 0)
            \/ RaisedBefore(FirstOf(bad))

\* The type-conversion error is raised for a column that follows a column
\* carrying a transform
C9_Witness ==
  /\ pc = "raised"
  /\ err.kind = "TypeConversion"
  /\ Len(config) >= 2
  /\ err.cols = <<config[2].name>>
  /\ HasUnconvertible(2)
  /\ MethodOf(config[1]) \in Registry

HasNaN(j) ==
  /\ ~Deleted(j)
  /\ InInput(j)
  /\ \E r \in 1..NRows : df0.data[config[j].name].vals[r].k = "nan"

\* C10 as stated: a NaN in a column declared Integer or Float makes the call
\* raise instead of getting past conversion.
C10_NumericNaNRaises ==
  (\E j \in DOMAIN config : config[j].type \in {"Integer", "Float"} /\ HasNaN(j))
     => pc \in {"call", "create", "raised"}

\* C10 amended: a NaN in a column declared Integer makes the call fail in
\* conversion with a ValueError, the type-conversion error naming the first
\* such column unless validation or conversion of an earlier descriptor raised
\* first; the value is neither dropped nor passed through.
C10_IntegerNaNRaises ==
  LET nan == {j \in DOMAIN config : config[j].type = "Integer" /\ HasNaN(j)}
  IN nan # {} =>
       /\ pc \in {"call", "create", "raised"}
       /\ result = EmptyFrame
       /\ pc = "raised" =>
            \/ err = Raise("TypeConversion", "ValueError",
                           <<config[FirstOf(nan)].name>>, 0)
            \/ RaisedBefore(FirstOf(nan))

\* The type-conversion error is raised for an Integer column holding a NaN
C10_Witness ==
  /\ pc = "raised"
  /\ err.kind = "TypeConversion"
  /\ \E j \in DOMAIN config :
       /\ err.cols = <<config[j].name>>
       /\ config[j].type = "Integer"
       /\ HasNaN(j)

FloatMethods == {"NoiseFloat", "RescalingFloat", "AggregationFloat", "FpeFloat"}

\* C11: a NaN in a column declared Float and given a method taking floats is
\* not rejected: the call never fails in the conversion or in the transform
\* of that column, and when it returns the column has all the rows of the
\* input, the NaN rows still holding NaN.
C11_FloatNaNAccepted ==
  \A j \in DOMAIN config :
    (config[j].type = "Float" /\ HasNaN(j) /\ MethodOf(config[j]) \in FloatMethods) =>
      LET name == config[j].name
      IN /\ pc = "raised" =>
              ~(err.kind \in {"TypeConversion", "Transform"} /\ name \in Range(err.cols))
         /\ pc = "done" =>
              /\ DOMAIN result.data[name].vals = DOMAIN df0.data[name].vals
              /\ \A r \in DOMAIN df0.data[name].vals :
                   df0.data[name].vals[r].k = "nan" => result.data[name].vals[r].k = "nan"

\* A call returned whose only column is a Float column holding a NaN, after
\* RescalingFloat was applied to it
C11_Witness ==
  /\ pc = "done"
  /\ Len(config) = 1
  /\ config[1].type = "Float"
  /\ MethodOf(config[1]) = "RescalingFloat"
  /\ HasNaN(1)
  /\ config[1].name \in applied
  /\ \E r \in 1..NRows : result.data[config[1].name].vals[r].k = "nan"
  /\ \E r \in 1..NRows : result.data[config[1].name].vals[r].k = "float"

\* The transform of a value raises: independently by the descriptor's method,
\* and as a member of a group by the group's method
FailsAlone(meta, cell) ==
  ~transform_func(create_transformation_function(MethodOf(meta), OptionsOf(meta)).fn,
                  cell, 0).ok
FailsInGroup(task, vec) == \E c \in DOMAIN vec : ~NoiseAccepts(task.method, vec[c])

\* C12: a transform failure is a ValueError carrying the 1-based index of the
\* first row whose transform raises, and that row is the last one the loop
\* invoked the transform on; raised by the independent loop it names the
\* column of the running descriptor, raised by the group loop it names the
\* member columns of the running group.
C12_TransformFailureLocated ==
  (pc = "raised" /\ err.kind = "Transform") =>
     /\ err.cls = "ValueError"
     /\ err.row \in 1..NRows
     /\ last_row = err.row
     /\ IF group_calls = <<>>
        THEN LET vals == output_df.data[config[i].name].vals
             IN /\ err.cols = <<config[i].name>>
                /\ FailsAlone(config[i], vals[err.row])
                /\ \A r \in 1..(err.row - 1) : ~FailsAlone(config[i], vals[r])
        ELSE LET rows == Values(output_df, tasks[i].column_names)
             IN /\ err.cols = tasks[i].column_names
                /\ Len(err.cols) >= 1
                /\ FailsInGroup(tasks[i], rows[err.row])
                /\ \A r \in 1..(err.row - 1) : ~FailsInGroup(tasks[i], rows[r])

\* An independent transform failed at a row that is not the first
C12_Witness ==
  /\ pc = "raised"
  /\ err.kind = "Transform"
  /\ group_calls = <<>>
  /\ err.row > 1
  /\ err.cols = <<config[i].name>>

\* The transform of a group of two columns failed
C12_WitnessGroup ==
  /\ pc = "raised"
  /\ err.kind = "Transform"
  /\ Len(err.cols) = 2
  /\ group_calls = <<err.cols>>

\* The options lack an option the method requires: the hash type of Hash, the
\* radix or the digit of FpeInteger, a complete (mean, std_dev) or
\* (lower_boundary, upper_boundary) pair of a noise method
MissingRequired(method, opts) ==
  \/ method = "Hash" /\ "hash_type" \notin DOMAIN opts
  \/ method = "FpeInteger" /\ ~({"radix", "digit"} \subseteq DOMAIN opts)
  \/ /\ method \in NoiseMethods
     /\ ~({"mean", "std_dev"} \subseteq DOMAIN opts)
     /\ ~({"lower_boundary", "upper_boundary"} \subseteq DOMAIN opts)

\* C13: when the resolver is called for a method whose required options are
\* missing, the call fails with a ValueError that names the method.
C13_MissingOptionIsValueError ==
  (resolver_calls # <<>> /\
   MissingRequired(resolver_calls[Len(resolver_calls)].method,
                   resolver_calls[Len(resolver_calls)].opts)) =>
     /\ pc = "raised"
     /\ err.cls = "ValueError"
     /\ resolver_calls[Len(resolver_calls)].method \in Range(err.cols)

\* C14: under anonymize_from_files no exception of anonymize_dataframe leaves
\* the function: the failure is printed as a message, the function returns and
\* the output file is not written; the file is written only once
\* anonymize_dataframe has returned.
C14_ErrorsCaughtAndReported ==
  /\ caller_pc # "raised"
  /\ (pc = "raised" /\ caller_pc = "returned") =>
        (stdout = <<"Anonymization failed:">> /\ ~output_file.exists)
  /\ output_file.exists => pc = "done"

\* The part of C14 that holds: a ValueError is printed and no file is written,
\* and the file is written only after anonymize_dataframe returned
C14_ValueErrorsCaught ==
  /\ (pc = "raised" /\ caller_pc = "returned") =>
        (stdout = <<"Anonymization failed:">> /\ ~output_file.exists)
  /\ (pc = "raised" /\ err.cls = "ValueError") => caller_pc # "raised"
  /\ output_file.exists => (pc = "done" /\ output_file = to_csv(result))

\* The descriptor carries a correlation id and a method that is no noise method
CorrelatedNonNoise(j) ==
  /\ HasCorrelation(config[j])
  /\ config[j].method \notin NoiseMethods

\* C15: a descriptor that carries a correlation id with a method that is no
\* noise method makes the call fail: it never returns a dataset, and the
\* column is never transformed independently by its method.
C15_CorrelationNeedsNoiseMethod ==
  \A j \in DOMAIN config :
    CorrelatedNonNoise(j) =>
      /\ pc # "done"
      /\ config[j].name \notin applied
      /\ \A x \in DOMAIN resolver_calls : resolver_calls[x].col # config[j].name

\* The descriptor names a method that is neither registered nor DeleteColumn,
\* and carries no correlation id
UnknownMethodAt(j) ==
  /\ "method" \in DOMAIN config[j]
  /\ config[j].method \notin Registry \cup {"DeleteColumn"}
  /\ "correlation" \notin DOMAIN OptionsOf(config[j])

\* C16: a descriptor naming an unregistered method, on a column that is kept
\* and carries no correlation id, makes the call fail no later than at that
\* column's turn in the independent loop, without a row of the column being
\* transformed; the exception raised at its turn is the ValueError naming the
\* method, raised before any row is looked at.  DeleteColumn is never handed
\* to the resolver.
C16_UnknownMethod ==
  /\ \A x \in DOMAIN resolver_calls : resolver_calls[x].method # "DeleteColumn"
  /\ \A j \in DOMAIN config :
       UnknownMethodAt(j) =>
         /\ pc \in {"call", "create", "transform", "raised"}
         /\ result = EmptyFrame
         /\ config[j].name \notin applied
         /\ pc = "transform" => i <= j
         /\ pc = "raised" =>
              \/ err.kind \in {"MissingColumn", "InvalidType", "TypeConversion"}
              \/ i < j
              \/ /\ i = j
                 /\ err = Raise("UnknownMethod", "ValueError", <<config[j].method>>, 0)
                 /\ last_row = 0

\* The unknown-method error is raised for the second descriptor, after the
\* column of the first was transformed, in a configuration that deletes a
\* column
C16_Witness ==
  /\ pc = "raised"
  /\ err.kind = "UnknownMethod"
  /\ Len(config) = 3
  /\ err.cols = <<MethodOf(config[2])>>
  /\ config[1].name \in applied
  /\ Deleted(3)

\* The value of row r of the column of descriptor j after type conversion,
\* computed from row r of the input alone
ConvertedCell(j, r) ==
  LET values == df0.data[config[j].name]
  IN convert_config_types([dtype |-> values.dtype, vals |-> <<values.vals[r]>>],
                          config[j].type).col.vals[1]

\* The values the independent loop can give row r of the column of descriptor
\* j, computed from row r of the input alone
IndependentImages(j, r) ==
  IF MethodOf(config[j]) = None \/ "correlation" \in DOMAIN OptionsOf(config[j])
  THEN {ConvertedCell(j, r)}
  ELSE {transform_func(create_transformation_function(MethodOf(config[j]),
                                                      OptionsOf(config[j])).fn,
                       ConvertedCell(j, r), rnd).val : rnd \in 0..MaxNoise}

\* The vector of the members of a group on row r, computed from row r of the
\* input alone
GroupVector(task, r) ==
  LET Meta(name) == CHOOSE j \in DOMAIN config : config[j].name = name
      frame == [columns |-> task.column_names,
                rows |-> NRows,
                data |-> [c \in Range(task.column_names) |->
                            [dtype |-> convert_config_types(
                                         df0.data[c], config[Meta(c)].type).col.dtype,
                             vals |-> [q \in 1..NRows |-> ConvertedCell(Meta(c), r)]]]]
  IN Values(frame, task.column_names)[r]

\* Every column of the returned dataset has the rows of the input, and row r
\* of it is computed from row r of the input: by the conversion and the
\* independent transform of its descriptor, or by one invocation of the
\* transform of its group on the row's vector of member values
RowsAligned ==
  /\ \A j \in DOMAIN config :
       ~Deleted(j) =>
         LET name == config[j].name
         IN /\ DOMAIN result.data[name].vals = DOMAIN df0.data[name].vals
            /\ (\A x \in DOMAIN tasks : name \notin Range(tasks[x].column_names)) =>
                 \A r \in 1..NRows : result.data[name].vals[r] \in IndependentImages(j, r)
  /\ \A x \in DOMAIN tasks :
       \A r \in 1..NRows :
         LET vec == GroupVector(tasks[x], r)
             out == [c \in DOMAIN tasks[x].column_names |->
                       result.data[tasks[x].column_names[c]].vals[r]]
         IN \E noise \in 0..MaxNoise : out = apply_noise(tasks[x], vec, noise)

\* C17 as stated: every call that returns gives a dataset with as many rows as
\* the input, row r of every column being computed from row r of the input.
C17_RowsPreserved ==
  pc = "done" => (result.rows = df0.rows /\ RowsAligned)

\* C17 amended: every call that returns a dataset with at least one column, or
\* that ran in place, gives as many rows as the input, row r of every column
\* being computed from row r of the input; a call with inplace = False whose
\* configuration keeps no column returns a dataset without rows.
C17_RowsPreservedUnlessEmpty ==
  pc = "done" =>
    /\ (result.columns # <<>> \/ inplace) => result.rows = df0.rows
    /\ (result.columns = <<>> /\ ~inplace) => result.rows = 0
    /\ RowsAligned

\* A call returned three columns, one transformed independently and two as a
\* group
C17_Witness ==
  /\ pc = "done"
  /\ Len(result.columns) = 3
  /\ applied # {}
  /\ \E x \in DOMAIN tasks : Len(tasks[x].column_names) = 2
  /\ result.rows = NRows

IsDateCall(x) == calls[x].fn.method = "date_to_rfc3339"

C19_TransformRepeatable ==
  \A x, y \in DOMAIN calls :
    (calls[x].fn = calls[y].fn /\ calls[x].arg = calls[y].arg) =>
       calls[x].out = calls[y].out

\* The descriptor has a method, and method options holding a correlation id
Eligible(meta) ==
  MethodOf(meta) # None /\ "correlation" \in DOMAIN OptionsOf(meta)

\* The names of the eligible descriptors of a correlation id, in configuration
\* order
MembersOf(uid) ==
  LET OfUid(meta) == Eligible(meta) /\ OptionsOf(meta).correlation = uid
      metas == SelectSeq(config, OfUid)
  IN [j \in DOMAIN metas |-> metas[j].name]

\* C20: parse_noise_correlation_config returns one group per correlation id
\* carried by a descriptor that has a method and method options with a
\* correlation key; the members of a group are the names of the descriptors
\* of its id, each once, in configuration order; no group is empty; the other
\* descriptors are members of no group.
C20_GroupsPartitionCorrelated ==
  pc \in {"grouped", "correlate", "done"} =>
    /\ \A x, y \in DOMAIN tasks : tasks[x].uid = tasks[y].uid => x = y
    /\ {tasks[x].uid : x \in DOMAIN tasks}
         = {OptionsOf(config[j]).correlation :
              j \in {q \in DOMAIN config : Eligible(config[q])}}
    /\ \A x \in DOMAIN tasks :
         /\ tasks[x].column_names = MembersOf(tasks[x].uid)
         /\ Len(tasks[x].column_names) >= 1
    /\ \A j \in DOMAIN config :
         LET in == {x \in DOMAIN tasks : config[j].name \in Range(tasks[x].column_names)}
         IN IF Eligible(config[j])
            THEN /\ Cardinality(in) = 1
                 /\ \A x \in in :
                      /\ tasks[x].uid = OptionsOf(config[j]).correlation
                      /\ Cardinality({c \in DOMAIN tasks[x].column_names :
                                        tasks[x].column_names[c] = config[j].name}) = 1
            ELSE in = {}

\* Two groups were returned, the first with the first and the third column,
\* the second with the column in between
C20_Witness ==
  /\ pc = "grouped"
  /\ Len(tasks) = 2
  /\ tasks[1].column_names = <<"A", "C">>
  /\ tasks[2].column_names = <<"B">>

\* Groups were returned for a configuration in which a descriptor without a
\* method carries the correlation id of a group
C20_WitnessSkipped ==
  /\ pc = "grouped"
  /\ Len(tasks) = 1
  /\ tasks[1].column_names = <<"A", "C">>
  /\ "method" \notin DOMAIN config[2]
  /\ "correlation" \in DOMAIN OptionsOf(config[2])

\* The first descriptor of the configuration, in configuration order, that is
\* eligible for the group of a correlation id
FirstOfGroup(uid) ==
  CHOOSE j \in DOMAIN config :
    /\ Eligible(config[j]) /\ OptionsOf(config[j]).correlation = uid
    /\ \A q \in DOMAIN config :
         (Eligible(config[q]) /\ OptionsOf(config[q]).correlation = uid) => j <= q

\* The members of the group declare more than one method or more than one
\* mapping of options
MixedGroup(task) ==
  \E j, q \in DOMAIN config :
    /\ config[j].name \in Range(task.column_names)
    /\ config[q].name \in Range(task.column_names)
    /\ \/ MethodOf(config[j]) # MethodOf(config[q])
       \/ OptionsOf(config[j]) # OptionsOf(config[q])

\* C21: the method and the options of a group are those of the first
\* descriptor of its correlation id in configuration order (the options
\* without the reserved keys); the later descriptors of the id are members
\* whatever they declare, and a call that returns gave every member the noise
\* of the first descriptor's method, one noise per row.
C21_FirstSeenBindsGroup ==
  pc \in {"correlate", "done"} =>
    \A x \in DOMAIN tasks :
      LET first == config[FirstOfGroup(tasks[x].uid)]
          bound == [tasks[x] EXCEPT !.method = first.method]
      IN /\ tasks[x].method = first.method
         /\ tasks[x].options = Without(first.method_options, {"correlation", "fine_tuning"})
         /\ \A j \in DOMAIN config :
              (Eligible(config[j]) /\ OptionsOf(config[j]).correlation = tasks[x].uid)
                 => config[j].name \in Range(tasks[x].column_names)
         /\ pc = "done" =>
              \A r \in 1..NRows :
                LET vec == GroupVector(tasks[x], r)
                    out == [c \in DOMAIN tasks[x].column_names |->
                              result.data[tasks[x].column_names[c]].vals[r]]
                IN \E noise \in 0..MaxNoise : out = apply_noise(bound, vec, noise)

\* A call returned after transforming a group whose second member declares
\* another method and other options than the first
C21_Witness ==
  /\ pc = "done"
  /\ Len(tasks) = 1
  /\ Len(tasks[1].column_names) = 2
  /\ MixedGroup(tasks[1])
  /\ \E j, q \in DOMAIN config :
       /\ j < q
       /\ config[j].name = tasks[1].column_names[1]
       /\ config[q].name = tasks[1].column_names[2]
       /\ MethodOf(config[q]) # MethodOf(config[j])
       /\ Without(OptionsOf(config[q]), {"correlation"}) # tasks[1].options
  /\ group_calls = <<tasks[1].column_names>>

\* Number of calls of the resolver made for a column, and number of group
\* transforms the column was a member of
ResolvedTimes(name) ==
  Cardinality({x \in DOMAIN resolver_calls : resolver_calls[x].col = name})
GroupedTimes(name) ==
  Cardinality({x \in DOMAIN group_calls : name \in Range(group_calls[x])})

C23_ResolverNeverSeesCorrelation ==
  \A x \in DOMAIN resolver_calls :
    "correlation" \notin DOMAIN resolver_calls[x].opts

\* The resolver was called for a column that follows, in the configuration, a
\* column with a registered method and a correlation id
C23_Witness ==
  /\ resolver_calls # <<>>
  /\ \E j, q \in DOMAIN config :
       /\ j < q
       /\ MethodOf(config[j]) \in Registry
       /\ "correlation" \in DOMAIN OptionsOf(config[j])
       /\ resolver_calls[Len(resolver_calls)].col = config[q].name

\* C24: the options the resolver hands to a parsing function never hold
\* fine_tuning, the options of a group hold neither correlation nor
\* fine_tuning, and both are the declared options without those keys; the
\* options mapping of the descriptor still is what was handed to the resolver.
C24_ReservedKeysFiltered ==
  /\ \A x \in DOMAIN resolver_calls :
       LET call == resolver_calls[x]
           j == CHOOSE q \in DOMAIN config : config[q].name = call.col
       IN /\ "fine_tuning" \notin DOMAIN call.passed
          /\ call.method \in Registry =>
               call.passed = [k \in DOMAIN call.opts \ {"fine_tuning"} |-> call.opts[k]]
          /\ OptionsOf(config[j]) = call.opts
  /\ \A x \in DOMAIN tasks :
       LET declared == OptionsOf(config[FirstOfGroup(tasks[x].uid)])
       IN /\ DOMAIN tasks[x].options \cap {"correlation", "fine_tuning"} = {}
          /\ tasks[x].options =
               [k \in DOMAIN declared \ {"correlation", "fine_tuning"} |-> declared[k]]
          /\ "correlation" \in DOMAIN declared

\* A call returned after an independent transform and a group transform whose
\* descriptors both declare fine_tuning
C24_Witness ==
  /\ pc = "done"
  /\ \E x \in DOMAIN resolver_calls :
       /\ "fine_tuning" \in DOMAIN resolver_calls[x].opts
       /\ resolver_calls[x].col \in applied
  /\ group_calls # <<>>
  /\ \E x \in DOMAIN tasks :
       "fine_tuning" \in DOMAIN OptionsOf(config[FirstOfGroup(tasks[x].uid)])

\* The kept columns among the first n descriptors, and among them those the
\* independent loop resolves a transform for, in configuration order
KeptBefore(n) ==
  LET kept == SelectSeq(SubSeq(config, 1, n), NotDeleted)
  IN [j \in DOMAIN kept |-> kept[j].name]

IndependentBefore(n) ==
  LET Independent(meta) ==
        /\ NotDeleted(meta)
        /\ MethodOf(meta) # None
        /\ "correlation" \notin DOMAIN OptionsOf(meta)
      metas == SelectSeq(SubSeq(config, 1, n), Independent)
  IN [j \in DOMAIN metas |-> metas[j].name]

ResolvedColumns == [x \in DOMAIN resolver_calls |-> resolver_calls[x].col]

\* Every configured column is in the input and every kept column converts
ValidationPasses ==
  \A j \in DOMAIN config :
    /\ InInput(j)
    /\ ~Deleted(j) => convert_config_types(df0.data[config[j].name], config[j].type).ok

\* C25: the phases run in order, each column and each group once: while the
\* columns are validated and converted, in configuration order, no transform
\* is resolved and no group is built; the independent loop starts when all are
\* validated and resolves the columns in configuration order; the grouper
\* and the group transforms run when all independent transforms are done, the
\* groups in their order.  An exception of validation or conversion is raised
\* before any transform is resolved, an exception of a later phase only on a
\* dataset that passes validation and conversion entirely, and an exception
\* of the group loop only after every independent transform succeeded.
C25_PhasesInOrder ==
  /\ pc \in {"call", "create"} => (NoTransformYet /\ tasks = <<>>)
  /\ pc = "create" => sorted_output_columns = KeptBefore(i - 1)
  /\ pc \in {"transform", "correlate", "done"} =>
       sorted_output_columns = KeptBefore(Len(config))
  /\ pc = "transform" =>
       /\ ResolvedColumns = IndependentBefore(i - 1)
       /\ tasks = <<>>
       /\ group_calls = <<>>
  /\ pc \in {"correlate", "done"} => ResolvedColumns = IndependentBefore(Len(config))
  /\ pc = "correlate" => group_calls = [x \in 1..(i - 1) |-> tasks[x].column_names]
  /\ pc = "done" => group_calls = [x \in DOMAIN tasks |-> tasks[x].column_names]
  /\ pc = "raised" =>
       /\ err.kind \in {"MissingColumn", "InvalidType", "TypeConversion"} =>
            (NoTransformYet /\ tasks = <<>>)
       /\ ~ValidationPasses =>
            err.kind \in {"MissingColumn", "InvalidType", "TypeConversion"}
       /\ (resolver_calls # <<>> \/ group_calls # <<>>) =>
            sorted_output_columns = KeptBefore(Len(config))
       /\ group_calls # <<>> =>
            /\ ResolvedColumns = IndependentBefore(Len(config))
            /\ Range(ResolvedColumns) \subseteq applied

\* The missing-column error of the third descriptor was raised although the
\* first descriptor names an unregistered method
C25_Witness ==
  /\ pc = "raised"
  /\ Len(config) = 3
  /\ err.kind = "MissingColumn"
  /\ err.cols = <<config[3].name>>
  /\ UnknownMethodAt(1)

\* The transform of a group failed after an independent transform placed
\* after the group's members in the configuration had succeeded
C25_WitnessGroup ==
  /\ pc = "raised"
  /\ Len(config) = 3
  /\ group_calls # <<>>
  /\ config[3].name \in applied
  /\ config[1].name \in Range(group_calls[1])

====
